---- MODULE Spec2Model ----
(***************************************************************************)
(* Storage layer of the customer-support application:                      *)
(*   RedisClient   (src/storage/redis_client.py)  sessions, contexts,      *)
(*                 scratch values and counters over a key-value cache;     *)
(*   SQLiteClient  (src/storage/sqlite_client.py) conversation rows and    *)
(*                 the append-only message log.                            *)
(*   SimplifiedRedisClient (src/storage/redis_client_simple.py) the        *)
(*                 customer-context cache over the same engine.            *)
(* The cache engine and the relational engine are modelled by the          *)
(* primitives the clients call (get, setex, set, delete, incrby; INSERT,   *)
(* INSERT .. ON CONFLICT DO UPDATE).                                       *)
(*                                                                         *)
(* Time is in seconds.  now is the UTC wall clock, tz the offset of the    *)
(* host's local time from UTC.  A timestamp is the number of seconds of    *)
(* the naive datetime whose isoformat() text the code stores; isoformat    *)
(* is injective and order preserving on naive datetimes, so the integer    *)
(* stands for the text.  Two successive clock reads of the client are      *)
(* separated by an awaited engine round trip, so a read that is stored     *)
(* is OpTime later than the previous one.                                  *)
(***************************************************************************)
EXTENDS Integers, Sequences, FiniteSets, TLC

\* ------------------------------------------------------------------ bounds
\* Number of clock-advancing steps (Tick, and the operations that stamp a
\* time) in one behaviour.
MaxSteps == 4
\* Largest absolute value a counter may hold / largest message_count.
MaxCount == 4
\* Clock-advancing steps in a behaviour of StoreSpec.
StoreSteps == 3
\* Clock-advancing steps in a behaviour of ClientSpec.
ClientSteps == 2
\* Coroutines running increment_message_count side by side on one client.
MaxTasks == 3

SessionIds == {"s1", "s2"}
Emails == {"a@x", "b@x"}
TempKeys == {"k1"}
CounterKeys == {"c1"}
\* Offsets of local time from UTC, in seconds.
TzOffsets == {-3600, 0, 3600}
\* Amounts of time the environment lets pass in one Tick.
TickSteps == {3600, 3600 * 24}
\* Time between two clock reads of the client.
OpTime == 1

\* --------------------------------------------------------- class constants
SESSION_PREFIX == "session:"
CONTEXT_PREFIX == "context:"
TEMP_PREFIX == "temp:"
COUNTER_PREFIX == "counter:"

SESSION_TTL == 3600 * 24
CONTEXT_TTL == 3600 * 2
TEMP_TTL == 300

\* Key helpers: the f-string prefix + id, kept as a pair.
_session_key(session_id) == <<SESSION_PREFIX, session_id>>
_context_key(customer_email) == <<CONTEXT_PREFIX, customer_email>>
_temp_key(key) == <<TEMP_PREFIX, key>>
_counter_key(key) == <<COUNTER_PREFIX, key>>

\* test_key of the two health checks
HealthKey == <<"healthcheck:", "test">>
SimpleHealthKey == <<"healthcheck:", "simple">>

Keys ==
    {_session_key(i) : i \in SessionIds} \cup {_context_key(e) : e \in Emails}
    \cup {_temp_key(k) : k \in TempKeys} \cup {_counter_key(k) : k \in CounterKeys}
    \cup {HealthKey, SimpleHealthKey}

\* ------------------------------------------------------------ python values
\* Python's None, as a return value.
None == [none |-> TRUE]
\* Return values carry their type, so that any two can be compared.
PyBool(b) == [bool |-> b]
PyInt(n) == [int |-> n]
PyObj(x) == IF x = None THEN None ELSE [obj |-> x]
PyText(x) == IF x = None THEN None ELSE [text |-> x]
PyList(xs) == [list |-> xs]
\* A keyword argument passed as None.
NoneArg == [none |-> TRUE]
EmptyMap == [x \in {} |-> 0]

\* ------------------------------------------------------------- stored text
\* The text stored under a key is one of
\*   [session |-> s]  the JSON document of a SessionState s
\*   [object |-> m]   the JSON document of a mapping m that is no SessionState
\*   [int |-> n]      the decimal text of an integer
\*   [raw |-> x]      any other text: x = "" is the empty string, the rest
\*                    is text no JSON parser accepts
Garbage == [raw |-> "{not json"]
EmptyText == [raw |-> ""]

\* `not data` / `if data`: None and the empty string are falsy.
Falsy(data) == data = None \/ data = EmptyText

\* SessionState(...) of create_session, with the model's defaults.
SessionState(session_id, customer_email, created_at, last_activity, context) ==
    [session_id |-> session_id, customer_email |-> customer_email,
     created_at |-> created_at, last_activity |-> last_activity,
     context |-> context, message_count |-> 0, status |-> "active"]

\* session.model_dump_json()
model_dump_json(session) == [session |-> session]
\* SessionState.model_validate_json(data) raises unless data is the JSON
\* document of an object with the required fields.
ValidatesAsSession(data) == "session" \in DOMAIN data
model_validate_json(data) == data.session

\* json.dumps(mapping)
json_dumps(mapping) == [object |-> mapping]
\* json.loads(data) raises JSONDecodeError on text that is no JSON document.
JsonParses(data) == DOMAIN data \cap {"session", "object", "int"} # {}
json_loads(data) ==
    IF "object" \in DOMAIN data THEN data.object
    ELSE IF "session" \in DOMAIN data THEN data.session
    ELSE data.int

\* ---------------------------------------------------------------- variables
VARIABLES
    redis,          \* RedisClient.redis: "None" or "handle"
    simple,         \* SimplifiedRedisClient.redis: "None" or "handle"
    db,             \* the cache engine: key -> Nil or [val, exp]
    now,            \* UTC wall clock, seconds
    tz,             \* local time minus UTC, seconds
    steps,          \* clock-advancing steps taken
    ret,            \* outcome of the last client operation
    incs,           \* per session: increments since create_session, -1 when
                    \* the count was written otherwise or the key is gone
    conn,           \* SQLiteClient.conn: "None" or "open"
    conversations,  \* rows of table conversations, in rowid order
    messages,       \* rows of table messages, in rowid order
    sqlite_sequence,\* AUTOINCREMENT high-water mark of table messages
    calls,          \* the update_conversation calls made, in order
    tasks,          \* per coroutine of increment_message_count: where it
                    \* is, the session it read and the value it returned
    deleted         \* per session id: delete_session has returned and no
                    \* create_session was called since

vars == <<redis, simple, db, now, tz, steps, ret, incs, conn, conversations,
          messages, sqlite_sequence, calls, tasks, deleted>>
cacheVars == <<redis, db, now, steps, ret, incs>>
logVars == <<conn, conversations, messages, sqlite_sequence, calls>>

\* ------------------------------------------------------------- cache engine
Nil == [nil |-> TRUE]
NoExpiry == -1

\* GET key
rget(d, k) == IF d[k] = Nil THEN None ELSE d[k].val
\* (mutant) a write that keeps the expiry a live key has
rsetex_keepttl(d, k, ttl, text, t) ==
    [d EXCEPT ![k] = [val |-> text, exp |-> IF d[k] = Nil THEN t + ttl ELSE d[k].exp]]

\* SETEX key ttl text, issued at time t
rsetex(d, k, ttl, text, t) == [d EXCEPT ![k] = [val |-> text, exp |-> t + ttl]]
\* SET key text: the key becomes persistent
rset(d, k, text) == [d EXCEPT ![k] = [val |-> text, exp |-> NoExpiry]]
\* DEL key, and the number of keys it removed
rdelete(d, k) == [d EXCEPT ![k] = Nil]
rdeleted(d, k) == IF d[k] = Nil THEN 0 ELSE 1
\* Keys whose expiry time has come are gone.
Expire(d, t) ==
    [k \in Keys |-> IF d[k] # Nil /\ d[k].exp # NoExpiry /\ d[k].exp <= t
                    THEN Nil ELSE d[k]]
\* TTL key, at time t (meaningful for a live key with an expiry)
RemainingTTL(d, k, t) == d[k].exp - t

\* ------------------------------------------------------------------- clock
\* datetime.datetime.now().isoformat(): naive local time
_now_iso(t) == t + tz
\* datetime.datetime.utcnow().isoformat(): naive UTC
_utcnow_iso(t) == t

\* ------------------------------------------------------------- connection
\* _ensure_connected: connect() when self.redis is None.  connect() assigns
\* the handle before it pings, so the handle stays set when the ping raises.
Pings == IF redis = "None" THEN 1 ELSE 0
\* f numbers the engine call of the operation that fails (0: none fails);
\* the ping, when there is one, is call 1.
PingFails(f) == redis = "None" /\ f = 1
CallFails(f, k) == f = Pings + k
\* What failed in an operation: nothing, the ping of its connect, or one of
\* its own engine calls.
FailKind(f) == IF f = 0 THEN "none" ELSE IF PingFails(f) THEN "ping" ELSE "call"
Raised(op, arg, f, exc) ==
    [op |-> op, arg |-> arg, val |-> None, exc |-> exc, fail |-> FailKind(f)]
Returned(op, arg, f, val) ==
    [op |-> op, arg |-> arg, val |-> val, exc |-> "none", fail |-> FailKind(f)]

\* An operation that raises before it writes: only the handle and ret change.
Raises(op, arg, f, exc) ==
    /\ redis' = "handle"
    /\ ret' = Raised(op, arg, f, exc)
    /\ UNCHANGED <<db, now, steps, incs>>

\* An operation that returns val and leaves the engine as it is.
Reads(op, arg, f, val) ==
    /\ redis' = "handle"
    /\ ret' = Returned(op, arg, f, val)
    /\ UNCHANGED <<db, now, steps, incs>>

\* (mutant) the engine error is turned into a false result
EngineErrorAsFalse(op, arg, f) == Reads(op, arg, f, PyBool(FALSE))

\* (mutant) the engine error is turned into a null result
EngineErrorSwallowed(op, arg, f) == Reads(op, arg, f, None)

\* An engine call of the operation fails: no operation but health_check has
\* a handler, so the error reaches the caller.
EngineError(op, arg, f) == Raises(op, arg, f, "ConnectionError")

\* ------------------------------------------------------ session operations
\* (mutant) a get that builds a default session for a missing key
SessionOfOrDefault(d, session_id) ==
    LET data == rget(d, <<SESSION_PREFIX, session_id>>) IN
    IF data = None \/ data = EmptyText
    THEN SessionState(session_id, "", 0, 0, EmptyMap)
    ELSE IF ValidatesAsSession(data) THEN model_validate_json(data)
    ELSE None

\* get_session, as a function of the engine state: the SessionState or None.
SessionOf(d, session_id) ==
    LET data == rget(d, _session_key(session_id)) IN
    IF Falsy(data) THEN None
    ELSE IF ValidatesAsSession(data) THEN model_validate_json(data)
    ELSE None

\* (mutant) last_activity is read from the UTC clock, created_at from the
\* local one
NewSessionTwoClocks(session_id, customer_email, t) ==
    SessionState(session_id, customer_email, t + tz, t, EmptyMap)

\* create_session(session_id, customer_email): the object it builds at time t
NewSession(session_id, customer_email, t) ==
    SessionState(session_id, customer_email, _now_iso(t), _now_iso(t), EmptyMap)

CreateSession(session_id, customer_email, f) ==
    /\ f \in 0..(Pings + 1)
    /\ IF PingFails(f) \/ CallFails(f, 1)
       THEN EngineError("create_session", session_id, f)
       ELSE /\ steps < MaxSteps
            /\ LET t == now + OpTime
                   session == NewSession(session_id, customer_email, t)
               IN /\ db' = Expire(rsetex(db, _session_key(session_id), SESSION_TTL,
                                         model_dump_json(session), t), t)
                  /\ now' = t
                  /\ ret' = Returned("create_session", session_id, f, PyObj(session))
            /\ steps' = steps + 1
            /\ redis' = "handle"
            /\ incs' = [i \in SessionIds |->
                          IF i = session_id THEN 0
                          ELSE IF db'[_session_key(i)] = Nil THEN -1 ELSE incs[i]]

GetSession(session_id, f) ==
    /\ f \in 0..(Pings + 1)
    /\ IF PingFails(f) \/ CallFails(f, 1)
       THEN EngineError("get_session", session_id, f)
       ELSE Reads("get_session", session_id, f, PyObj(SessionOf(db, session_id)))

\* The loop of update_session over the keyword arguments: a field is set when
\* its value is not None and the session has an attribute of that name.
HasAttr(session, field) == field \in DOMAIN session
PyValue(value) == IF "str" \in DOMAIN value THEN value.str ELSE value.int
RECURSIVE ApplyUpdates(_, _)
ApplyUpdates(session, updates) ==
    IF updates = <<>> THEN session
    ELSE LET field == Head(updates)[1]
             value == Head(updates)[2]
             next == IF value # NoneArg /\ HasAttr(session, field)
                     THEN [session EXCEPT ![field] = PyValue(value)]
                     ELSE session
         IN ApplyUpdates(next, Tail(updates))

\* The session update_session writes back at time t.
UpdatedSession(session, updates, t) ==
    [ApplyUpdates(session, updates) EXCEPT !.last_activity = _utcnow_iso(t)]

\* Whether the keyword arguments write message_count.
WritesCount(updates) ==
    \E n \in 1..Len(updates) : updates[n][1] = "message_count" /\ updates[n][2] # NoneArg

UpdateSession(session_id, updates, f) ==
    LET session == SessionOf(db, session_id) IN
    /\ f \in 0..(Pings + (IF session = None THEN 1 ELSE 2))
    /\ IF PingFails(f) \/ CallFails(f, 1)
       THEN EngineError("update_session", session_id, f)
       ELSE IF session = None
       THEN Reads("update_session", session_id, f, PyBool(FALSE))
       ELSE IF CallFails(f, 2)
       THEN EngineError("update_session", session_id, f)
       ELSE /\ steps < MaxSteps
            /\ LET t == now + OpTime IN
                  /\ db' = Expire(rsetex(db, _session_key(session_id), SESSION_TTL,
                                         model_dump_json(UpdatedSession(session, updates, t)), t), t)
                  /\ now' = t
            /\ ret' = Returned("update_session", session_id, f, PyBool(TRUE))
            /\ steps' = steps + 1
            /\ redis' = "handle"
            /\ incs' = [i \in SessionIds |->
                          IF i = session_id
                          THEN (IF WritesCount(updates) THEN -1 ELSE incs[i])
                          ELSE IF db'[_session_key(i)] = Nil THEN -1 ELSE incs[i]]

\* update_session(session_id, session_id=...): the keyword collides with the
\* positional parameter, so the call raises TypeError before the body runs.
UpdateSessionKeywordClash(session_id) ==
    /\ ret' = Raised("update_session", session_id, 0, "TypeError")
    /\ UNCHANGED <<redis, db, now, steps, incs>>

\* (mutant) the count is bumped twice
IncrementedTwice(session, t) ==
    [session EXCEPT !.message_count = session.message_count + 2,
                    !.last_activity = _utcnow_iso(t)]

\* The session increment_message_count writes back at time t.
IncrementedSession(session, t) ==
    [session EXCEPT !.message_count = session.message_count + 1,
                    !.last_activity = _utcnow_iso(t)]

IncrementMessageCount(session_id, f) ==
    LET session == SessionOf(db, session_id) IN
    /\ f \in 0..(Pings + (IF session = None THEN 1 ELSE 2))
    /\ IF PingFails(f) \/ CallFails(f, 1)
       THEN EngineError("increment_message_count", session_id, f)
       ELSE IF session = None
       THEN Reads("increment_message_count", session_id, f, PyInt(0))
       ELSE IF CallFails(f, 2)
       THEN EngineError("increment_message_count", session_id, f)
       ELSE /\ steps < MaxSteps
            /\ session.message_count < MaxCount
            /\ LET t == now + OpTime
                   new == IncrementedSession(session, t)
               IN /\ db' = Expire(rsetex(db, _session_key(session_id), SESSION_TTL,
                                         model_dump_json(new), t), t)
                  /\ now' = t
                  /\ ret' = Returned("increment_message_count", session_id, f,
                                     PyInt(new.message_count))
            /\ steps' = steps + 1
            /\ redis' = "handle"
            /\ incs' = [i \in SessionIds |->
                          IF i = session_id
                          THEN (IF incs[i] >= 0 THEN incs[i] + 1 ELSE -1)
                          ELSE IF db'[_session_key(i)] = Nil THEN -1 ELSE incs[i]]

\* (mutant) the delete operations report success whatever DEL removed
DeleteResultAlways(d, k) == PyBool(TRUE)

\* bool(result) of the delete operations
DeleteResult(d, k) == PyBool(rdeleted(d, k) # 0)

\* delete of one key: delete_session, delete_context, delete_temp_data
DeleteKey(op, arg, k, f) ==
    /\ f \in 0..(Pings + 1)
    /\ IF PingFails(f) \/ CallFails(f, 1)
       THEN EngineError(op, arg, f)
       ELSE /\ db' = rdelete(db, k)
            /\ ret' = Returned(op, arg, f, DeleteResult(db, k))
            /\ redis' = "handle"
            /\ incs' = [i \in SessionIds |->
                          IF db'[_session_key(i)] = Nil THEN -1 ELSE incs[i]]
            /\ UNCHANGED <<now, steps>>

DeleteSession(session_id, f) ==
    DeleteKey("delete_session", session_id, _session_key(session_id), f)

\* ------------------------------------------------------ context operations
\* `ttl or default`: an argument of None or 0 selects the default.
TtlOr(ttl, default) == IF ttl = 0 THEN default ELSE ttl

\* get_context, as a function of the engine state; it has no handler for a
\* text json.loads rejects.
ContextRaises(d, customer_email) ==
    LET data == rget(d, _context_key(customer_email)) IN
    ~Falsy(data) /\ ~JsonParses(data)
ContextOf(d, customer_email) ==
    LET data == rget(d, _context_key(customer_email)) IN
    IF Falsy(data) THEN None ELSE json_loads(data)

SetContext(customer_email, context, ttl, f) ==
    /\ f \in 0..(Pings + 1)
    /\ IF PingFails(f) \/ CallFails(f, 1)
       THEN EngineError("set_context", customer_email, f)
       ELSE /\ db' = rsetex(db, _context_key(customer_email), TtlOr(ttl, CONTEXT_TTL),
                            json_dumps(context), now)
            /\ ret' = Returned("set_context", customer_email, f, None)
            /\ redis' = "handle"
            /\ UNCHANGED <<now, steps, incs>>

GetContext(customer_email, f) ==
    /\ f \in 0..(Pings + 1)
    /\ IF PingFails(f) \/ CallFails(f, 1)
       THEN EngineError("get_context", customer_email, f)
       ELSE IF ContextRaises(db, customer_email)
       THEN Raises("get_context", customer_email, f, "JSONDecodeError")
       ELSE Reads("get_context", customer_email, f, PyObj(ContextOf(db, customer_email)))

\* (mutant) the update replaces the mapping instead of merging into it
DictReplace(existing, updates) == updates

\* existing.update(updates): the keys of updates win.
DictUpdate(existing, updates) ==
    [k \in DOMAIN existing \cup DOMAIN updates |->
        IF k \in DOMAIN updates THEN updates[k] ELSE existing[k]]

\* `await self.get_context(customer_email) or {}`
ExistingOrEmpty(d, customer_email) ==
    IF ContextOf(d, customer_email) = None THEN EmptyMap ELSE ContextOf(d, customer_email)

UpdateContext(customer_email, updates, f) ==
    /\ f \in 0..(Pings + (IF ContextRaises(db, customer_email) THEN 1 ELSE 2))
    /\ IF PingFails(f) \/ CallFails(f, 1) \/ CallFails(f, 2)
       THEN EngineError("update_context", customer_email, f)
       ELSE IF ContextRaises(db, customer_email)
       THEN Raises("update_context", customer_email, f, "JSONDecodeError")
       ELSE /\ db' = rsetex(db, _context_key(customer_email), TtlOr(0, CONTEXT_TTL),
                            json_dumps(DictUpdate(ExistingOrEmpty(db, customer_email), updates)),
                            now)
            /\ ret' = Returned("update_context", customer_email, f, None)
            /\ redis' = "handle"
            /\ UNCHANGED <<now, steps, incs>>

DeleteContext(customer_email, f) ==
    DeleteKey("delete_context", customer_email, _context_key(customer_email), f)

\* ---------------------------------------------------------- temporary data
\* The text set_temp_data stores: json.dumps for a dict, str(data) otherwise.
TempText(data) ==
    IF "dict" \in DOMAIN data THEN json_dumps(data.dict)
    ELSE IF "int" \in DOMAIN data THEN [int |-> data.int]
    ELSE [raw |-> data.str]

SetTempData(key, data, ttl, f) ==
    /\ f \in 0..(Pings + 1)
    /\ IF PingFails(f) \/ CallFails(f, 1)
       THEN EngineError("set_temp_data", key, f)
       ELSE /\ db' = rsetex(db, _temp_key(key), TtlOr(ttl, TEMP_TTL), TempText(data), now)
            /\ ret' = Returned("set_temp_data", key, f, None)
            /\ redis' = "handle"
            /\ UNCHANGED <<now, steps, incs>>

GetTempData(key, f) ==
    /\ f \in 0..(Pings + 1)
    /\ IF PingFails(f) \/ CallFails(f, 1)
       THEN EngineError("get_temp_data", key, f)
       ELSE Reads("get_temp_data", key, f, PyText(rget(db, _temp_key(key))))

DeleteTempData(key, f) ==
    DeleteKey("delete_temp_data", key, _temp_key(key), f)

\* ---------------------------------------------------------------- counters
\* INCRBY key amount: an absent key counts as 0 and is created persistent;
\* an existing key keeps its expiry.
\* (mutant) the counter moves by one whatever the amount
rincrby_once(d, k, amount) ==
    IF d[k] = Nil THEN [d EXCEPT ![k] = [val |-> [int |-> 1], exp |-> NoExpiry]]
    ELSE [d EXCEPT ![k].val = [int |-> d[k].val.int + 1]]

\* (mutant) the amount overwrites the value instead of being added to it
rincrby_overwrites(d, k, amount) ==
    [d EXCEPT ![k] = [val |-> [int |-> amount],
                      exp |-> IF d[k] = Nil THEN NoExpiry ELSE d[k].exp]]

rincrby(d, k, amount) ==
    IF d[k] = Nil THEN [d EXCEPT ![k] = [val |-> [int |-> amount], exp |-> NoExpiry]]
    ELSE [d EXCEPT ![k].val = [int |-> d[k].val.int + amount]]

CounterOf(d, key) ==
    LET value == rget(d, _counter_key(key)) IN
    IF value # None THEN value.int ELSE 0

IncrementCounter(key, amount, f) ==
    /\ f \in 0..(Pings + 1)
    /\ IF PingFails(f) \/ CallFails(f, 1)
       THEN EngineError("increment_counter", key, f)
       ELSE /\ CounterOf(db, key) + amount <= MaxCount
            /\ db' = rincrby(db, _counter_key(key), amount)
            /\ ret' = Returned("increment_counter", key, f, PyInt(CounterOf(db', key)))
            /\ redis' = "handle"
            /\ UNCHANGED <<now, steps, incs>>

GetCounter(key, f) ==
    /\ f \in 0..(Pings + 1)
    /\ IF PingFails(f) \/ CallFails(f, 1)
       THEN EngineError("get_counter", key, f)
       ELSE Reads("get_counter", key, f, PyInt(CounterOf(db, key)))

ResetCounter(key, f) ==
    /\ f \in 0..(Pings + 1)
    /\ IF PingFails(f) \/ CallFails(f, 1)
       THEN EngineError("reset_counter", key, f)
       ELSE /\ db' = rset(db, _counter_key(key), [int |-> 0])
            /\ ret' = Returned("reset_counter", key, f, None)
            /\ redis' = "handle"
            /\ UNCHANGED <<now, steps, incs>>

\* ------------------------------------------- interleaved increment calls
\* increment_message_count run as a coroutine: it is suspended while the
\* engine answers its get and while the engine answers its setex, so the
\* engine may serve calls of other coroutines between the two.
Tasks == 1..MaxTasks
IdleTask == [pc |-> "idle", session_id |-> "", session |-> None, val |-> 0]

\* `session = await self.get_session(session_id)`, and `return 0` when there
\* is none.
IncrementGet(t, session_id) ==
    LET session == SessionOf(db, session_id) IN
    /\ tasks[t].pc = "idle"
    /\ IF session = None
       THEN /\ tasks' = [tasks EXCEPT ![t] = [pc |-> "done", session_id |-> session_id,
                                              session |-> None, val |-> 0]]
            /\ ret' = Returned("increment_message_count", session_id, 0, PyInt(0))
       ELSE /\ tasks' = [tasks EXCEPT ![t] = [pc |-> "got", session_id |-> session_id,
                                              session |-> session, val |-> 0]]
            /\ ret' = ret
    /\ redis' = "handle"
    /\ UNCHANGED <<db, now, steps, incs>>

\* The rest of the call: the count of the session that was read is bumped,
\* the session is written back with setex and the count is returned.
IncrementSetex(t) ==
    LET session_id == tasks[t].session_id IN
    /\ tasks[t].pc = "got"
    /\ steps < MaxSteps
    /\ tasks[t].session.message_count < MaxCount
    /\ LET time == now + OpTime
           new == IncrementedSession(tasks[t].session, time)
       IN /\ db' = Expire(rsetex(db, _session_key(session_id), SESSION_TTL,
                                 model_dump_json(new), time), time)
          /\ now' = time
          /\ tasks' = [tasks EXCEPT ![t] = [pc |-> "done", session_id |-> session_id,
                                            session |-> new, val |-> new.message_count]]
          /\ ret' = Returned("increment_message_count", session_id, 0,
                             PyInt(new.message_count))
    /\ steps' = steps + 1
    /\ incs' = [i \in SessionIds |->
                  IF i = session_id
                  THEN (IF incs[i] >= 0 THEN incs[i] + 1 ELSE -1)
                  ELSE IF db'[_session_key(i)] = Nil THEN -1 ELSE incs[i]]
    /\ UNCHANGED redis

\* update_session run as a coroutine, suspended while the engine answers
\* its get and its setex.  `session = await self.get_session(session_id)`,
\* `return False` when there is none, else the loop over the updates.
UpdateGet(t, session_id, updates) ==
    LET session == SessionOf(db, session_id) IN
    /\ tasks[t].pc = "idle"
    /\ IF session = None
       THEN /\ tasks' = [tasks EXCEPT ![t] = [pc |-> "done", session_id |-> session_id,
                                              session |-> None, val |-> 0]]
            /\ ret' = Returned("update_session", session_id, 0, PyBool(FALSE))
       ELSE /\ tasks' = [tasks EXCEPT ![t] =
                            [pc |-> "updating", session_id |-> session_id,
                             session |-> ApplyUpdates(session, updates), val |-> 0]]
            /\ ret' = ret
    /\ redis' = "handle"
    /\ UNCHANGED <<db, now, steps, incs>>

\* The rest of the call: last_activity is stamped, the session is written
\* back with setex and True is returned.
UpdateSetex(t) ==
    LET session_id == tasks[t].session_id IN
    /\ tasks[t].pc = "updating"
    /\ steps < MaxSteps
    /\ LET time == now + OpTime
           new == UpdatedSession(tasks[t].session, <<>>, time)
       IN /\ db' = Expire(rsetex(db, _session_key(session_id), SESSION_TTL,
                                 model_dump_json(new), time), time)
          /\ now' = time
          /\ tasks' = [tasks EXCEPT ![t] = [pc |-> "done", session_id |-> session_id,
                                            session |-> new, val |-> 0]]
    /\ ret' = Returned("update_session", session_id, 0, PyBool(TRUE))
    /\ steps' = steps + 1
    /\ incs' = [i \in SessionIds |->
                  IF i = session_id \/ db'[_session_key(i)] = Nil THEN -1 ELSE incs[i]]
    /\ UNCHANGED redis

\* increment_counter run as a coroutine: it sends one INCRBY and is
\* suspended until the answer arrives; the engine executes the INCRBY of
\* each call as one step, in any order, and the answers arrive in any order.
\* A task that has called is [pc, key, amount, val].
IncrementCounterCall(t, key, amount) ==
    /\ tasks[t].pc = "idle"
    /\ tasks' = [tasks EXCEPT ![t] = [pc |-> "called", key |-> key, amount |-> amount,
                                      val |-> 0]]
    /\ redis' = "handle"
    /\ UNCHANGED <<db, now, steps, ret, incs>>

\* The engine executes the INCRBY of call t.
IncrementCounterServe(t) ==
    /\ tasks[t].pc = "called"
    /\ CounterOf(db, tasks[t].key) + tasks[t].amount \in (0 - MaxCount)..MaxCount
    /\ db' = rincrby(db, _counter_key(tasks[t].key), tasks[t].amount)
    /\ tasks' = [tasks EXCEPT ![t].pc = "served", ![t].val = CounterOf(db', tasks[t].key)]
    /\ UNCHANGED <<redis, now, steps, ret, incs>>

\* `return int(await self.redis.incrby(...))`
IncrementCounterReturn(t) ==
    /\ tasks[t].pc = "served"
    /\ tasks' = [tasks EXCEPT ![t].pc = "returned"]
    /\ ret' = Returned("increment_counter", tasks[t].key, 0, PyInt(tasks[t].val))
    /\ UNCHANGED <<redis, db, now, steps, incs>>

\* ----------------------------------------------------------- bulk operations
\* scan_iter(prefix + "*"): the live keys of a namespace.
ScanKeys(d, prefix) == {k \in Keys : k[1] = prefix /\ d[k] # Nil}

\* get_sessions_by_customer: the sessions among the scanned keys whose text
\* validates and whose customer_email matches (the scan fixes no order).
SessionsOf(d, customer_email) ==
    {SessionOf(d, k[2]) : k \in {j \in ScanKeys(d, SESSION_PREFIX) :
        /\ SessionOf(d, j[2]) # None
        /\ SessionOf(d, j[2]).customer_email = customer_email}}

GetSessionsByCustomer(customer_email, f) ==
    /\ f \in 0..(Pings + 1 + Cardinality(ScanKeys(db, SESSION_PREFIX)))
    /\ IF f # 0
       THEN EngineError("get_sessions_by_customer", customer_email, f)
       ELSE Reads("get_sessions_by_customer", customer_email, f,
                  PyList(SessionsOf(db, customer_email)))

\* (mutant) a census that counts the keys of every namespace it scans as 0
CensusEmpty(d) ==
    [sessions_active |-> 0, contexts_active |-> 0, temp_data_active |-> 0]

\* cleanup_expired_data: one count per scanned namespace.
Census(d) ==
    [sessions_active |-> Cardinality(ScanKeys(d, SESSION_PREFIX)),
     contexts_active |-> Cardinality(ScanKeys(d, CONTEXT_PREFIX)),
     temp_data_active |-> Cardinality(ScanKeys(d, TEMP_PREFIX))]

CleanupExpiredData(f) ==
    /\ f \in 0..(Pings + 3)
    /\ IF f # 0
       THEN EngineError("cleanup_expired_data", "", f)
       ELSE Reads("cleanup_expired_data", "", f, PyObj(Census(db)))

\* flushdb: every key of the database is removed.
FlushDb(f) ==
    /\ f \in 0..(Pings + 1)
    /\ IF f # 0
       THEN EngineError("flushdb", "", f)
       ELSE /\ db' = [k \in Keys |-> Nil]
            /\ ret' = Returned("flushdb", "", f, None)
            /\ redis' = "handle"
            /\ incs' = [i \in SessionIds |-> -1]
            /\ UNCHANGED <<now, steps>>

\* ------------------------------------------------------------ health checks
HealthyReport(test_value) ==
    [status |-> "healthy", test_passed |-> (test_value = "ok")]
UnhealthyReport(exc) ==
    [status |-> "unhealthy", test_passed |-> FALSE, error |-> exc]

\* The engine after the set / get / delete / info round trip on test_key
\* whose call number k failed (0: none): the key is written once set has
\* succeeded and removed once delete has.
HealthRound(d, test_key, k) ==
    IF k = 1 THEN d
    ELSE IF k \in {2, 3} THEN rset(d, test_key, [raw |-> "ok"])
    ELSE rdelete(rset(d, test_key, [raw |-> "ok"]), test_key)

\* (mutant) the handler of health_check lets the exception through
HealthOutcomeRaises(op, kind, exc) ==
    IF kind = "none"
    THEN [op |-> op, arg |-> "", val |-> PyObj(HealthyReport("ok")), exc |-> "none",
          fail |-> kind]
    ELSE [op |-> op, arg |-> "", val |-> None, exc |-> exc, fail |-> kind]

\* What health_check returns: `except Exception` turns every failure of the
\* try block, the connect included, into a report.
HealthOutcome(op, kind, exc) ==
    [op |-> op, arg |-> "", exc |-> "none", fail |-> kind,
     val |-> PyObj(IF kind = "none" THEN HealthyReport("ok") ELSE UnhealthyReport(exc))]

\* RedisClient.health_check
HealthCheck(f) ==
    /\ f \in 0..(Pings + 4)
    /\ redis' = "handle"
    /\ db' = IF PingFails(f) THEN db ELSE HealthRound(db, HealthKey, f - Pings)
    /\ ret' = HealthOutcome("health_check", FailKind(f), "ConnectionError")
    /\ UNCHANGED <<now, steps, incs>>

\* ------------------------------------------------- simplified cache client
\* SimplifiedRedisClient: connect / _ensure_connected as in RedisClient, on
\* its own handle.
SimplePings == IF simple = "None" THEN 1 ELSE 0
SimplePingFails(f) == simple = "None" /\ f = 1
SimpleCallFails(f, k) == f = SimplePings + k
SimpleFailKind(f) ==
    IF f = 0 THEN "none" ELSE IF SimplePingFails(f) THEN "ping" ELSE "call"

\* An operation of the simplified client that ends with engine state d; the
\* outcome records whether the operation changed the engine.
SimpleRaises(op, arg, f, exc, d) ==
    /\ simple' = "handle"
    /\ db' = d
    /\ ret' = [op |-> op, arg |-> arg, val |-> None, exc |-> exc,
               fail |-> SimpleFailKind(f), changed |-> (d # db)]
    /\ UNCHANGED <<redis, now, steps, incs>>
SimpleReturns(op, arg, f, val, d) ==
    /\ simple' = "handle"
    /\ db' = d
    /\ ret' = [op |-> op, arg |-> arg, val |-> val, exc |-> "none",
               fail |-> SimpleFailKind(f), changed |-> (d # db)]
    /\ UNCHANGED <<redis, now, steps, incs>>

CacheCustomerContext(customer_email, context_data, ttl, f) ==
    /\ f \in 0..(SimplePings + 1)
    /\ IF f # 0
       THEN SimpleRaises("cache_customer_context", customer_email, f, "ConnectionError", db)
       ELSE SimpleReturns("cache_customer_context", customer_email, f, None,
                rsetex(db, _context_key(customer_email), TtlOr(ttl, CONTEXT_TTL),
                       json_dumps(context_data), now))

\* get_customer_context: `raw is None` is absence; a text json.loads
\* rejects (the empty string included) is deleted in the handler.
Corrupt(d, customer_email) ==
    LET raw == rget(d, _context_key(customer_email)) IN
    raw # None /\ ~JsonParses(raw)

\* (mutant) a read that answers the empty mapping for a missing key
CustomerContextOrEmpty(d, customer_email) ==
    LET raw == rget(d, <<CONTEXT_PREFIX, customer_email>>) IN
    IF raw = None THEN EmptyMap
    ELSE IF ~JsonParses(raw) THEN None
    ELSE json_loads(raw)

\* The value get_customer_context returns.
CustomerContextOf(d, customer_email) ==
    LET raw == rget(d, _context_key(customer_email)) IN
    IF raw = None \/ ~JsonParses(raw) THEN None ELSE json_loads(raw)

\* (mutant) the handler leaves the corrupt key where it is
KeepCorrupt(d, customer_email) == d

\* The delete in the except branch of get_customer_context.
DropCorrupt(d, customer_email) == rdelete(d, _context_key(customer_email))

GetCustomerContext(customer_email, f) ==
    /\ f \in 0..(SimplePings + (IF Corrupt(db, customer_email) THEN 2 ELSE 1))
    /\ IF f # 0
       THEN SimpleRaises("get_customer_context", customer_email, f, "ConnectionError", db)
       ELSE SimpleReturns("get_customer_context", customer_email, f,
                PyObj(CustomerContextOf(db, customer_email)),
                IF Corrupt(db, customer_email) THEN DropCorrupt(db, customer_email) ELSE db)

\* update_customer_context: the inner get_customer_context finds the handle
\* set, so the connect is the outer one; the write is cache_customer_context
\* with the default TTL.
UpdateCustomerContext(customer_email, updates, f) ==
    LET existing == CustomerContextOf(db, customer_email) IN
    /\ f \in 0..(SimplePings + (IF rget(db, _context_key(customer_email)) = None
                                THEN 1 ELSE 2))
    /\ IF f # 0
       THEN SimpleRaises("update_customer_context", customer_email, f, "ConnectionError", db)
       ELSE IF Corrupt(db, customer_email)
       THEN SimpleReturns("update_customer_context", customer_email, f, PyBool(FALSE),
                DropCorrupt(db, customer_email))
       ELSE IF existing = None
       THEN SimpleReturns("update_customer_context", customer_email, f, PyBool(FALSE), db)
       ELSE SimpleReturns("update_customer_context", customer_email, f, PyBool(TRUE),
                rsetex(db, _context_key(customer_email), TtlOr(0, CONTEXT_TTL),
                       json_dumps(DictUpdate(existing, updates)), now))

InvalidateCustomerContext(customer_email, f) ==
    /\ f \in 0..(SimplePings + 1)
    /\ IF f # 0
       THEN SimpleRaises("invalidate_customer_context", customer_email, f,
                         "ConnectionError", db)
       ELSE SimpleReturns("invalidate_customer_context", customer_email, f,
                DeleteResult(db, _context_key(customer_email)),
                rdelete(db, _context_key(customer_email)))

\* SimplifiedRedisClient.health_check
SimpleHealthCheck(f) ==
    /\ f \in 0..(SimplePings + 4)
    /\ simple' = "handle"
    /\ db' = IF SimplePingFails(f) THEN db
             ELSE HealthRound(db, SimpleHealthKey, f - SimplePings)
    /\ ret' = HealthOutcome("simple.health_check", SimpleFailKind(f), "ConnectionError")
    /\ UNCHANGED <<redis, now, steps, incs>>

\* SimplifiedRedisClient.disconnect
SimpleDisconnect ==
    /\ simple = "handle"
    /\ simple' = "None"
    /\ UNCHANGED <<redis, db, now, steps, ret, incs>>

\* ------------------------------------------------------------- environment
\* disconnect(): closes the handle when there is one.
Disconnect ==
    /\ redis = "handle"
    /\ redis' = "None"
    /\ UNCHANGED <<db, now, steps, ret, incs>>

\* Time passes; the engine drops the keys whose expiry has come.
Tick(d) ==
    /\ steps < MaxSteps
    /\ now' = now + d
    /\ steps' = steps + 1
    /\ db' = Expire(db, now')
    /\ incs' = [i \in SessionIds |-> IF db'[_session_key(i)] = Nil THEN -1 ELSE incs[i]]
    /\ UNCHANGED <<redis, ret>>

\* Another writer of the shared engine leaves a text under a session or
\* context key that the client's reader rejects (the case the handlers of
\* get_session are written for).
ForeignTexts == <<Garbage, EmptyText, json_dumps(EmptyMap)>>
ForeignWrite(k, n) ==
    /\ k[1] \in {SESSION_PREFIX, CONTEXT_PREFIX}
    /\ k[1] = CONTEXT_PREFIX => ForeignTexts[n] # json_dumps(EmptyMap)
    /\ db' = rset(db, k, ForeignTexts[n])
    /\ incs' = [i \in SessionIds |-> IF k = _session_key(i) THEN -1 ELSE incs[i]]
    /\ UNCHANGED <<redis, now, steps, ret>>

\* ------------------------------------------------------ conversation log
\* SQL NULL, the value a parameter of None binds to.
SqlNull == "<NULL>"

\* connect(): a no-op on an open connection; CREATE TABLE IF NOT EXISTS
\* keeps the rows that are there.
Connected == "open"

\* (mutant) the high-water mark is handed out again
NextRowIdReused(seq) == seq

\* AUTOINCREMENT: the new rowid is one more than the largest rowid the table
\* ever held.
NextRowId(seq) == seq + 1

\* json.dumps(metadata or {})
MetadataJson(metadata) == json_dumps(IF metadata = None THEN EmptyMap ELSE metadata)

\* The row INSERT INTO messages adds.
MessageRow(id, session_id, message_id, customer_email, message_type, content, metadata, t) ==
    [id |-> id, session_id |-> session_id, message_id |-> message_id,
     customer_email |-> customer_email, message_type |-> message_type,
     content |-> content, metadata |-> MetadataJson(metadata), created_at |-> t]

AddMessage(session_id, message_id, customer_email, message_type, content, metadata) ==
    /\ steps < MaxSteps
    /\ LET t == now + OpTime
           id == NextRowId(sqlite_sequence)
       IN /\ messages' = Append(messages,
                 MessageRow(id, session_id, message_id, customer_email, message_type,
                            content, metadata, _utcnow_iso(t)))
          /\ sqlite_sequence' = id
          /\ now' = t
    /\ steps' = steps + 1
    /\ conn' = Connected
    /\ ret' = Returned("add_message", session_id, 0, None)
    /\ UNCHANGED <<conversations, calls, redis, db, incs>>

\* INSERT INTO conversations .. ON CONFLICT(session_id) DO UPDATE SET
\* status, issue_type, sentiment, updated_at = excluded.*
Conflicts(rows, session_id) == {n \in 1..Len(rows) : rows[n].session_id = session_id}
\* (mutant) the conflicting row is replaced whole, created_at included
OnConflictReplace(row, excluded) == excluded
\* (mutant) a conflict refreshes status and updated_at and keeps the labels
OnConflictKeepLabels(row, excluded) ==
    [row EXCEPT !.status = excluded.status, !.updated_at = excluded.updated_at]
OnConflictUpdate(row, excluded) ==
    [row EXCEPT !.status = excluded.status, !.issue_type = excluded.issue_type,
                !.sentiment = excluded.sentiment, !.updated_at = excluded.updated_at]
Upsert(rows, excluded) ==
    IF Conflicts(rows, excluded.session_id) = {}
    THEN Append(rows, excluded)
    ELSE [n \in 1..Len(rows) |->
            IF n \in Conflicts(rows, excluded.session_id)
            THEN OnConflictUpdate(rows[n], excluded) ELSE rows[n]]

\* The parameters update_conversation binds: (session_id, status,
\* issue_type, sentiment, now, now).
ConversationRow(session_id, status, issue_type, sentiment, t) ==
    [session_id |-> session_id, status |-> status, issue_type |-> issue_type,
     sentiment |-> sentiment, created_at |-> t, updated_at |-> t]

UpdateConversation(session_id, status, issue_type, sentiment) ==
    /\ steps < MaxSteps
    /\ LET t == now + OpTime IN
          /\ conversations' = Upsert(conversations,
                 ConversationRow(session_id, status, issue_type, sentiment, _utcnow_iso(t)))
          /\ calls' = Append(calls, [session_id |-> session_id, status |-> status,
                                     issue_type |-> issue_type,
                                     at |-> _utcnow_iso(t)])
          /\ now' = t
    /\ steps' = steps + 1
    /\ conn' = Connected
    /\ ret' = Returned("update_conversation", session_id, 0, None)
    /\ UNCHANGED <<messages, sqlite_sequence, redis, db, incs>>

\* close(): the rows stay in the database file.
Close ==
    /\ conn = "open"
    /\ conn' = "None"
    /\ UNCHANGED <<conversations, messages, sqlite_sequence, calls, cacheVars>>

\* SQLiteClient.health_check: connect() opens the file (call 1) and sets up
\* journal mode and schema (call 2) when there is no connection, then
\* SELECT 1 runs.  The handle is assigned as soon as the file is open.
SqlConnects == IF conn = "None" THEN 2 ELSE 0
SqlFailKind(f) ==
    IF f = 0 THEN "none" ELSE IF f <= SqlConnects THEN "connect" ELSE "call"
SqliteHealthCheck(f) ==
    /\ f \in 0..(SqlConnects + 1)
    /\ conn' = IF conn = "None" /\ f = 1 THEN "None" ELSE Connected
    /\ ret' = HealthOutcome("sqlite.health_check", SqlFailKind(f), "OperationalError")
    /\ UNCHANGED <<conversations, messages, sqlite_sequence, calls>>
    /\ UNCHANGED <<redis, db, now, steps, incs>>

\* ----------------------------------------------------------- specification
\* Keyword arguments of update_session the model draws from.
UpdateChoices ==
    << <<>>,
       << <<"status", [str |-> "closed"]>> >>,
       << <<"status", NoneArg>> >>,
       << <<"message_count", [int |-> -1]>> >>,
       << <<"priority", [str |-> "high"]>> >> >>
ContextChoices == << [a |-> 1], [b |-> 2] >>
TempChoices == << [str |-> "x"], [dict |-> [a |-> 1]] >>
TtlArgs == {0, 3600 * 4}
Amounts == {1, 2}
FailPoints == 0..2

NoRet == [op |-> "none", arg |-> "", val |-> None, exc |-> "none", fail |-> "none"]

Init ==
    /\ redis = "None"
    /\ simple = "None"
    /\ db = [k \in Keys |-> Nil]
    /\ now = 0
    /\ tz \in TzOffsets
    /\ steps = 0
    /\ ret = NoRet
    /\ incs = [i \in SessionIds |-> -1]
    /\ conn = "None"
    /\ conversations = <<>>
    /\ messages = <<>>
    /\ sqlite_sequence = 0
    /\ calls = <<>>
    /\ tasks = [t \in Tasks |-> IdleTask]
    /\ deleted = [i \in SessionIds |-> FALSE]

\* What an operation of the cache client leaves alone.
CacheFrame == UNCHANGED <<tz, simple, logVars, tasks, deleted>>

\* Spec: the session operations of one client on two session ids, the engine
\* answering every call.
Next ==
    \/ \E i \in SessionIds : CreateSession(i, "a@x", 0) /\ CacheFrame
    \/ \E i \in SessionIds : GetSession(i, 0) /\ CacheFrame
    \/ \E i \in SessionIds, n \in 1..Len(UpdateChoices) :
          UpdateSession(i, UpdateChoices[n], 0) /\ CacheFrame
    \/ \E i \in SessionIds : IncrementMessageCount(i, 0) /\ CacheFrame
    \/ \E i \in SessionIds : DeleteSession(i, 0) /\ CacheFrame
    \/ \E d \in TickSteps : Tick(d) /\ CacheFrame
    \/ \E i \in SessionIds, n \in 1..Len(ForeignTexts) :
          ForeignWrite(_session_key(i), n) /\ CacheFrame

Spec == Init /\ [][Next]_vars

\* StoreSpec: every namespace of the store, host on UTC,
\* with engine failures.  The behaviours explored populate one namespace at
\* a time: an operation on a key is taken while the other namespaces are
\* empty, and at most StoreSteps clock-advancing steps are taken.
Quiet(prefix) == \A k \in Keys : k[1] # prefix => db[k] = Nil
StoreFrame == steps' <= StoreSteps /\ CacheFrame
StoreInit == Init /\ tz = 0
StoreNext ==
    \/ \E f \in FailPoints :
          Quiet(SESSION_PREFIX) /\ CreateSession("s1", "a@x", f) /\ StoreFrame
    \/ \E f \in FailPoints : Quiet(SESSION_PREFIX) /\ GetSession("s1", f) /\ StoreFrame
    \/ \E f \in FailPoints :
          Quiet(SESSION_PREFIX) /\ UpdateSession("s1", UpdateChoices[2], f) /\ StoreFrame
    \/ \E f \in FailPoints :
          Quiet(SESSION_PREFIX) /\ IncrementMessageCount("s1", f) /\ StoreFrame
    \/ \E f \in FailPoints : Quiet(SESSION_PREFIX) /\ DeleteSession("s1", f) /\ StoreFrame
    \/ \E e \in Emails, n \in 1..Len(ContextChoices), t \in TtlArgs, f \in FailPoints :
          Quiet(CONTEXT_PREFIX) /\ SetContext(e, ContextChoices[n], t, f) /\ StoreFrame
    \/ \E e \in Emails, f \in FailPoints :
          Quiet(CONTEXT_PREFIX) /\ GetContext(e, f) /\ StoreFrame
    \/ \E e \in Emails, n \in 1..Len(ContextChoices), f \in FailPoints :
          Quiet(CONTEXT_PREFIX) /\ UpdateContext(e, ContextChoices[n], f) /\ StoreFrame
    \/ \E e \in Emails, f \in FailPoints :
          Quiet(CONTEXT_PREFIX) /\ DeleteContext(e, f) /\ StoreFrame
    \/ \E k \in TempKeys, n \in 1..Len(TempChoices), t \in TtlArgs, f \in FailPoints :
          Quiet(TEMP_PREFIX) /\ SetTempData(k, TempChoices[n], t, f) /\ StoreFrame
    \/ \E k \in TempKeys, f \in FailPoints :
          Quiet(TEMP_PREFIX) /\ GetTempData(k, f) /\ StoreFrame
    \/ \E k \in TempKeys, f \in FailPoints :
          Quiet(TEMP_PREFIX) /\ DeleteTempData(k, f) /\ StoreFrame
    \/ \E k \in CounterKeys, a \in Amounts, f \in FailPoints :
          Quiet(COUNTER_PREFIX) /\ IncrementCounter(k, a, f) /\ StoreFrame
    \/ \E k \in CounterKeys, f \in FailPoints :
          Quiet(COUNTER_PREFIX) /\ GetCounter(k, f) /\ StoreFrame
    \/ \E k \in CounterKeys, f \in FailPoints :
          Quiet(COUNTER_PREFIX) /\ ResetCounter(k, f) /\ StoreFrame
    \/ \E d \in TickSteps : Tick(d) /\ StoreFrame
    \/ \E k \in {_session_key("s1"), _context_key("a@x")}, n \in 1..Len(ForeignTexts) :
          Quiet(k[1]) /\ ForeignWrite(k, n) /\ StoreFrame

StoreSpec == StoreInit /\ [][StoreNext]_vars

\* LogSpec: the conversation log store, host on UTC.
Statuses == {"active", "resolved"}
Contents == {"hi"}
MetadataChoices == <<None, [a |-> 1]>>
\* (issue_type, sentiment) pairs: both omitted, both given.
Labels == << <<SqlNull, SqlNull>>, <<"billing", "negative">> >>
LogFrame == UNCHANGED <<tz, simple, tasks, deleted>>
LogNext ==
    \/ \E i \in SessionIds, c \in Contents, n \in 1..Len(MetadataChoices) :
          AddMessage(i, "m1", "a@x", "customer", c, MetadataChoices[n]) /\ LogFrame
    \/ \E i \in SessionIds, st \in Statuses, n \in 1..Len(Labels) :
          UpdateConversation(i, st, Labels[n][1], Labels[n][2]) /\ LogFrame
    \/ Close /\ LogFrame
    \/ \E d \in {3600} : Tick(d) /\ UNCHANGED logVars /\ LogFrame

LogSpec == StoreInit /\ [][LogNext]_vars

\* ClientSpec: the three clients side by side, host on UTC: every operation
\* of RedisClient and of SimplifiedRedisClient with engine failures, connects
\* and disconnects, and the three health checks.  As in StoreSpec the
\* operations on the keys of a namespace are taken while the other
\* namespaces are empty.
HealthFailPoints == 0..5
ClientFrame == steps' <= ClientSteps /\ CacheFrame
SimpleFrame == UNCHANGED <<tz, logVars, tasks, deleted>>
ClientNext ==
    \/ \E f \in FailPoints :
          Quiet(SESSION_PREFIX) /\ CreateSession("s1", "a@x", f) /\ ClientFrame
    \/ \E f \in FailPoints : Quiet(SESSION_PREFIX) /\ GetSession("s1", f) /\ ClientFrame
    \/ \E f \in FailPoints :
          Quiet(SESSION_PREFIX) /\ UpdateSession("s1", UpdateChoices[2], f) /\ ClientFrame
    \/ \E f \in FailPoints :
          Quiet(SESSION_PREFIX) /\ IncrementMessageCount("s1", f) /\ ClientFrame
    \/ \E f \in FailPoints : Quiet(SESSION_PREFIX) /\ DeleteSession("s1", f) /\ ClientFrame
    \/ \E f \in FailPoints :
          Quiet(SESSION_PREFIX) /\ GetSessionsByCustomer("a@x", f) /\ ClientFrame
    \/ \E n \in 1..Len(ContextChoices), f \in FailPoints :
          Quiet(CONTEXT_PREFIX) /\ SetContext("a@x", ContextChoices[n], 0, f) /\ ClientFrame
    \/ \E f \in FailPoints : Quiet(CONTEXT_PREFIX) /\ GetContext("a@x", f) /\ ClientFrame
    \/ \E f \in FailPoints :
          Quiet(CONTEXT_PREFIX) /\ UpdateContext("a@x", ContextChoices[2], f) /\ ClientFrame
    \/ \E f \in FailPoints : Quiet(CONTEXT_PREFIX) /\ DeleteContext("a@x", f) /\ ClientFrame
    \/ \E f \in FailPoints :
          Quiet(TEMP_PREFIX) /\ SetTempData("k1", TempChoices[1], 0, f) /\ ClientFrame
    \/ \E f \in FailPoints : Quiet(TEMP_PREFIX) /\ GetTempData("k1", f) /\ ClientFrame
    \/ \E f \in FailPoints : Quiet(TEMP_PREFIX) /\ DeleteTempData("k1", f) /\ ClientFrame
    \/ \E f \in FailPoints :
          Quiet(COUNTER_PREFIX) /\ IncrementCounter("c1", 1, f) /\ ClientFrame
    \/ \E f \in FailPoints : Quiet(COUNTER_PREFIX) /\ GetCounter("c1", f) /\ ClientFrame
    \/ \E f \in FailPoints : Quiet(COUNTER_PREFIX) /\ ResetCounter("c1", f) /\ ClientFrame
    \/ \E f \in FailPoints : CleanupExpiredData(f) /\ ClientFrame
    \/ \E f \in FailPoints : FlushDb(f) /\ ClientFrame
    \/ \E f \in HealthFailPoints : HealthCheck(f) /\ ClientFrame
    \/ Disconnect /\ ClientFrame
    \/ \E e \in {"a@x"}, n \in 1..Len(ContextChoices), f \in FailPoints :
          Quiet(CONTEXT_PREFIX) /\ CacheCustomerContext(e, ContextChoices[n], 0, f)
          /\ SimpleFrame
    \/ \E e \in {"a@x"}, f \in FailPoints \cup {3} :
          Quiet(CONTEXT_PREFIX) /\ GetCustomerContext(e, f) /\ SimpleFrame
    \/ \E e \in {"a@x"}, n \in 1..Len(ContextChoices), f \in FailPoints \cup {3} :
          Quiet(CONTEXT_PREFIX) /\ UpdateCustomerContext(e, ContextChoices[n], f)
          /\ SimpleFrame
    \/ \E e \in {"a@x"}, f \in FailPoints :
          Quiet(CONTEXT_PREFIX) /\ InvalidateCustomerContext(e, f) /\ SimpleFrame
    \/ \E f \in HealthFailPoints : SimpleHealthCheck(f) /\ SimpleFrame
    \/ SimpleDisconnect /\ SimpleFrame
    \/ \E f \in HealthFailPoints : SqliteHealthCheck(f) /\ LogFrame
    \/ Close /\ LogFrame
    \/ \E e \in {"a@x"}, n \in 1..Len(ForeignTexts) :
          Quiet(CONTEXT_PREFIX) /\ ForeignWrite(_context_key(e), n) /\ ClientFrame

ClientSpec == StoreInit /\ [][ClientNext]_vars

\* CensusSpec: the namespaces of the store populated side by side, host on
\* UTC, the engine answering every call but those of the census and of the
\* health check.
CensusNext ==
    \/ \E i \in SessionIds : CreateSession(i, "a@x", 0) /\ StoreFrame
    \/ \E i \in SessionIds : DeleteSession(i, 0) /\ StoreFrame
    \/ \E e \in Emails : SetContext(e, ContextChoices[1], 0, 0) /\ StoreFrame
    \/ \E e \in Emails : DeleteContext(e, 0) /\ StoreFrame
    \/ \E k \in TempKeys : SetTempData(k, TempChoices[1], 0, 0) /\ StoreFrame
    \/ \E k \in CounterKeys : IncrementCounter(k, 1, 0) /\ StoreFrame
    \/ \E f \in {0, Pings + 3} : HealthCheck(f) /\ StoreFrame
    \/ \E f \in {0, Pings + 2} : CleanupExpiredData(f) /\ StoreFrame
    \/ \E d \in {SESSION_TTL} : Tick(d) /\ StoreFrame

CensusSpec == StoreInit /\ [][CensusNext]_vars

\* RaceSpec: sessions are created, then up to MaxTasks calls of
\* increment_message_count run interleaved on one client, host on UTC, the
\* engine answering every call.
TaskFrame == UNCHANGED <<tz, simple, logVars, deleted>>
RaceNext ==
    \/ \E i \in SessionIds :
          /\ \A t \in Tasks : tasks[t].pc = "idle"
          /\ db[_session_key(i)] = Nil
          /\ CreateSession(i, "a@x", 0) /\ CacheFrame
    \/ \E t \in Tasks, i \in SessionIds : IncrementGet(t, i) /\ TaskFrame
    \/ \E t \in Tasks : IncrementSetex(t) /\ TaskFrame
    \/ \E i \in SessionIds : GetSession(i, 0) /\ CacheFrame

RaceSpec == StoreInit /\ [][RaceNext]_vars

\* DeleteRaceSpec: create_session and delete_session calls, with calls of
\* update_session and increment_message_count running interleaved with them
\* on one client, host on UTC, the engine answering every call.  deleted
\* records the delete_session and create_session calls that returned.
DeleteRaceFrame == UNCHANGED <<tz, simple, logVars, tasks>>
DeleteRaceNext ==
    \/ \E i \in {"s1"} :
          /\ CreateSession(i, "a@x", 0)
          /\ deleted' = [deleted EXCEPT ![i] = FALSE]
          /\ DeleteRaceFrame
    \/ \E i \in {"s1"} :
          /\ DeleteSession(i, 0)
          /\ deleted' = [deleted EXCEPT ![i] = TRUE]
          /\ DeleteRaceFrame
    \/ \E t \in Tasks, i \in {"s1"} : IncrementGet(t, i) /\ TaskFrame
    \/ \E t \in Tasks : IncrementSetex(t) /\ TaskFrame
    \/ \E t \in Tasks, i \in {"s1"} : UpdateGet(t, i, UpdateChoices[2]) /\ TaskFrame
    \/ \E t \in Tasks : UpdateSetex(t) /\ TaskFrame
    \/ \E i \in {"s1"} : GetSession(i, 0) /\ CacheFrame

DeleteRaceSpec == StoreInit /\ [][DeleteRaceNext]_vars

\* IdentitySpec: the session operations of one client, host on UTC, the
\* engine answering every call, update_session being passed the schema
\* fields a caller can name.
IdentityChoices ==
    << << <<"status", [str |-> "closed"]>> >>,
       << <<"customer_email", [str |-> "b@x"]>> >>,
       << <<"created_at", [int |-> 0]>> >>,
       << <<"customer_email", NoneArg>>, <<"priority", [str |-> "high"]>> >> >>
IdentityNext ==
    \/ \E i \in SessionIds, e \in Emails : CreateSession(i, e, 0) /\ StoreFrame
    \/ \E i \in SessionIds, n \in 1..Len(IdentityChoices) :
          UpdateSession(i, IdentityChoices[n], 0) /\ StoreFrame
    \/ \E i \in SessionIds : UpdateSessionKeywordClash(i) /\ StoreFrame
    \/ \E i \in SessionIds : IncrementMessageCount(i, 0) /\ StoreFrame
    \/ \E i \in SessionIds : DeleteSession(i, 0) /\ StoreFrame
    \/ \E i \in SessionIds : GetSession(i, 0) /\ StoreFrame

IdentitySpec == StoreInit /\ [][IdentityNext]_vars

\* CounterRaceSpec: up to MaxTasks calls of increment_counter on one key run
\* interleaved on one client, with positive and negative amounts and no
\* reset_counter, the engine answering every call; get_counter reads the
\* key at any time.
RaceAmounts == {-1, 1, 2}
CounterRaceNext ==
    \/ \E t \in Tasks, a \in RaceAmounts : IncrementCounterCall(t, "c1", a) /\ TaskFrame
    \/ \E t \in Tasks : IncrementCounterServe(t) /\ TaskFrame
    \/ \E t \in Tasks : IncrementCounterReturn(t) /\ TaskFrame
    \/ GetCounter("c1", 0) /\ CacheFrame

CounterRaceSpec == StoreInit /\ [][CounterRaceNext]_vars

\* =================================================================== claims
AnyUpdateSession(i) == \E n \in 1..Len(UpdateChoices) : UpdateSession(i, UpdateChoices[n], 0)
AnyUpdateContext(e) == \E n \in 1..Len(ContextChoices) : UpdateContext(e, ContextChoices[n], 0)
StoreOps ==
    {"create_session", "get_session", "update_session", "increment_message_count",
     "delete_session", "set_context", "get_context", "update_context", "delete_context",
     "set_temp_data", "get_temp_data", "delete_temp_data", "increment_counter",
     "get_counter", "reset_counter"}

C2_UpdateAdvancesLastActivity ==
    [][\A i \in SessionIds :
         (SessionOf(db, i) # None /\ UpdateSession(i, UpdateChoices[2], 0)) =>
            /\ ret'.val = PyBool(TRUE)
            /\ SessionOf(db', i) # None
            /\ SessionOf(db', i).status = "closed"
            /\ SessionOf(db', i).last_activity > SessionOf(db, i).last_activity]_vars

\* C3: after n increment_message_count calls on a freshly created session,
\* with no other write of its count, the stored message_count is n and the
\* n-th call returned n.
C3_CountEqualsIncrements ==
    /\ \A i \in SessionIds :
          incs[i] >= 0 =>
             SessionOf(db, i) # None /\ SessionOf(db, i).message_count = incs[i]
    /\ (ret.op = "increment_message_count" /\ ret.arg \in SessionIds) =>
          (incs[ret.arg] >= 1 => ret.val = PyInt(incs[ret.arg]))

C3_Witness ==
    /\ incs["s1"] = 3
    /\ ret.op = "increment_message_count" /\ ret.arg = "s1" /\ ret.val = PyInt(3)

\* C4: get_session and get_context on a key whose text cannot be
\* deserialized return None, raise nothing and leave the text in place.
Undeserializable(data) == data # None /\ ~JsonParses(data)
C4_CorruptReadIsAbsence ==
    [][/\ \A i \in SessionIds :
            (Undeserializable(rget(db, _session_key(i))) /\ GetSession(i, 0)) =>
               (ret'.exc = "none" /\ ret'.val = None /\ db' = db)
       /\ \A e \in Emails :
            (Undeserializable(rget(db, _context_key(e))) /\ GetContext(e, 0)) =>
               (ret'.exc = "none" /\ ret'.val = None /\ db' = db)]_vars

\* C5: the conversations table holds exactly one row for every session_id
\* passed to update_conversation and none for the others; the row has the
\* status of the latest call and the created_at of the first.
CallsFor(session_id) == SelectSeq(calls, LAMBDA c : c.session_id = session_id)
C5_OneRowPerSession ==
    \A i \in SessionIds :
       LET cs == CallsFor(i)
           rows == Conflicts(conversations, i)
       IN IF cs = <<>> THEN rows = {}
          ELSE /\ Cardinality(rows) = 1
               /\ \A n \in rows :
                     /\ conversations[n].status = cs[Len(cs)].status
                     /\ conversations[n].created_at = cs[1].at

C5_Witness ==
    \E i \in SessionIds :
       /\ Len(CallsFor(i)) >= 2
       /\ CallsFor(i)[1].status # CallsFor(i)[Len(CallsFor(i))].status
       /\ \E n \in Conflicts(conversations, i) :
             conversations[n].updated_at > conversations[n].created_at

\* C6: no step changes or removes a message row; add_message adds exactly
\* one row, whose id is greater than the id of every earlier row, so the
\* rows are in insertion order by id.
AnyAddMessage ==
    \E i \in SessionIds, c \in Contents, n \in 1..Len(MetadataChoices) :
       AddMessage(i, "m1", "a@x", "customer", c, MetadataChoices[n])
C6_MessagesAppendOnly ==
    [][/\ Len(messages') >= Len(messages)
       /\ \A n \in 1..Len(messages) : messages'[n] = messages[n]
       /\ AnyAddMessage =>
             /\ Len(messages') = Len(messages) + 1
             /\ \A n \in 1..Len(messages) : messages[n].id < messages'[Len(messages')].id
       /\ \A m, n \in 1..Len(messages') : m < n => messages'[m].id < messages'[n].id]_vars

C6_Witness ==
    /\ Len(messages) >= 2
    /\ messages[1].session_id = messages[2].session_id
    /\ messages[1].id < messages[2].id
    /\ conversations # <<>>

\* C7: update_session on an id whose key is absent returns false and leaves
\* every key of the engine as it was.
C7_UpdateAbsentIsNoOp ==
    [][\A i \in SessionIds :
         (rget(db, _session_key(i)) = None /\ AnyUpdateSession(i)) =>
            (ret'.exc = "none" /\ ret'.val = PyBool(FALSE) /\ db' = db)]_vars

C7_Witness ==
    /\ ret.op = "update_session" /\ ret.exc = "none" /\ ret.val = PyBool(FALSE)
    /\ rget(db, _session_key(ret.arg)) = None
    /\ \E i \in SessionIds : SessionOf(db, i) # None

\* C8: deleting a session, context or scratch key that does not exist
\* returns false and changes nothing; deleting one that exists returns true
\* and the get that follows returns None.
DeleteCase(k, Delete, GetIsNone) ==
    /\ (db[k] = Nil /\ Delete) => (ret'.exc = "none" /\ ret'.val = PyBool(FALSE) /\ db' = db)
    /\ (db[k] # Nil /\ Delete) => (ret'.exc = "none" /\ ret'.val = PyBool(TRUE) /\ GetIsNone)
C8_DeleteThenAbsent ==
    [][/\ \A i \in SessionIds :
            DeleteCase(_session_key(i), DeleteSession(i, 0), SessionOf(db', i) = None)
       /\ \A e \in Emails :
            DeleteCase(_context_key(e), DeleteContext(e, 0),
                       ~ContextRaises(db', e) /\ ContextOf(db', e) = None)
       /\ \A k \in TempKeys :
            DeleteCase(_temp_key(k), DeleteTempData(k, 0), rget(db', _temp_key(k)) = None)]_vars

C8_Witness ==
    /\ ret.op = "delete_context" /\ ret.exc = "none" /\ ret.val = PyBool(TRUE)
    /\ db[_context_key(ret.arg)] = Nil

\* C9: a successful update_session or increment_message_count leaves the
\* session with a remaining TTL of exactly SESSION_TTL, a successful
\* update_context leaves the context with exactly CONTEXT_TTL, and
\* get_session and get_context change no key and no expiry.
C9_WritesResetTtl ==
    [][/\ \A i \in SessionIds :
            /\ (SessionOf(db, i) # None /\ AnyUpdateSession(i)) =>
                  RemainingTTL(db', _session_key(i), now') = SESSION_TTL
            /\ (SessionOf(db, i) # None /\ IncrementMessageCount(i, 0)) =>
                  RemainingTTL(db', _session_key(i), now') = SESSION_TTL
            /\ GetSession(i, 0) => (db' = db /\ now' = now)
       /\ \A e \in Emails :
            /\ (AnyUpdateContext(e) /\ ret'.exc = "none") =>
                  RemainingTTL(db', _context_key(e), now') = CONTEXT_TTL
            /\ GetContext(e, 0) => (db' = db /\ now' = now)]_vars

C9_Witness ==
    /\ ret.op = "update_session" /\ ret.exc = "none" /\ ret.val = PyBool(TRUE)
    /\ SessionOf(db, "s1") # None
    /\ SessionOf(db, "s1").last_activity >= SessionOf(db, "s1").created_at + 3600
    /\ RemainingTTL(db, _session_key("s1"), now) = SESSION_TTL

\* C10: increment_message_count on a session that exists returns a count
\* >= 1 and stores a message_count >= 1.
C10_IncrementAtLeastOne ==
    [][\A i \in SessionIds :
         (SessionOf(db, i) # None /\ IncrementMessageCount(i, 0)) =>
            /\ ret'.val.int >= 1
            /\ SessionOf(db', i) # None
            /\ SessionOf(db', i).message_count >= 1]_vars

\* C11: get_counter on a key never touched returns 0; increment_counter(key,
\* a) returns, and leaves stored, the previous value plus a (so the value is
\* the sum of the amounts since the last reset); after reset_counter the key
\* exists and the counter reads 0; get_counter returns the stored value.
C11_CounterIsSum ==
    [][\A k \in CounterKeys :
         /\ (db[_counter_key(k)] = Nil /\ GetCounter(k, 0)) => ret'.val = PyInt(0)
         /\ GetCounter(k, 0) => (ret'.val = PyInt(CounterOf(db, k)) /\ db' = db)
         /\ \A a \in Amounts :
               IncrementCounter(k, a, 0) =>
                  /\ ret'.val = PyInt(CounterOf(db, k) + a)
                  /\ CounterOf(db', k) = CounterOf(db, k) + a
                  /\ db'[_counter_key(k)] # Nil
         /\ ResetCounter(k, 0) =>
               (db'[_counter_key(k)] # Nil /\ CounterOf(db', k) = 0)]_vars

C11_Witness ==
    /\ ret.op = "increment_counter" /\ ret.exc = "none" /\ ret.val = PyInt(3)
    /\ CounterOf(db, "c1") = 3

\* C12: update_context(email, u) stores the shallow merge of the existing
\* context (the empty mapping when there is none) with u, the keys of u
\* winning: {"a":1} updated with {"b":2} reads back {"a":1,"b":2}, and on
\* an email with no context the stored context is u.
C12_UpdateContextMerges ==
    [][\A e \in Emails, n \in 1..Len(ContextChoices) :
         LET u == ContextChoices[n]
             old == ContextOf(db, e)
             new == ContextOf(db', e)
         IN (~ContextRaises(db, e) /\ UpdateContext(e, u, 0)) =>
               /\ ret'.exc = "none"
               /\ ~ContextRaises(db', e)
               /\ new # None
               /\ DOMAIN new = DOMAIN u \cup (IF old = None THEN {} ELSE DOMAIN old)
               /\ \A k \in DOMAIN new : new[k] = IF k \in DOMAIN u THEN u[k] ELSE old[k]
               /\ db[_context_key(e)] = Nil => new = u
               /\ (old = [a |-> 1] /\ u = [b |-> 2]) => new = [a |-> 1, b |-> 2]]_vars

C12_Witness ==
    /\ ret.op = "update_context" /\ ret.exc = "none"
    /\ ContextOf(db, ret.arg) = [a |-> 1, b |-> 2]

\* C14: create_session(id, email) leaves, and returns, a session that
\* get_session(id) reads back with session_id = id, customer_email = email,
\* last_activity = created_at, message_count 0 and status "active", whether
\* or not the key held a session before.
C14_CreateThenGet ==
    [][\A i \in SessionIds :
         CreateSession(i, "a@x", 0) =>
            LET s == SessionOf(db', i) IN
            /\ s # None
            /\ s.session_id = i /\ s.customer_email = "a@x"
            /\ s.last_activity = s.created_at
            /\ s.message_count = 0 /\ s.status = "active"
            /\ ret'.val = PyObj(s)]_vars

C14_Witness ==
    /\ ret.op = "create_session" /\ ret.arg = "s1" /\ now >= 3 /\ tz # 0
    /\ SessionOf(db, "s1") # None
    /\ SessionOf(db, "s1").created_at = _now_iso(now)
    /\ SessionOf(db, "s1").message_count = 0
    /\ SessionOf(db, "s2") # None /\ SessionOf(db, "s2").message_count > 0

\* C17: after update_conversation(s, status, issue_type, sentiment) the row
\* of s has exactly the status, issue_type and sentiment of that call; a
\* call that omits the labels stores NULL over a label an earlier call
\* stored.
C17_ConflictOverwritesLabels ==
    [][\A i \in SessionIds, st \in Statuses, n \in 1..Len(Labels) :
         UpdateConversation(i, st, Labels[n][1], Labels[n][2]) =>
            /\ Conflicts(conversations', i) # {}
            /\ \A r \in Conflicts(conversations', i) :
                  /\ conversations'[r].status = st
                  /\ conversations'[r].issue_type = Labels[n][1]
                  /\ conversations'[r].sentiment = Labels[n][2]]_vars

C17_Witness ==
    \E i \in SessionIds :
       /\ Len(CallsFor(i)) >= 2
       /\ CallsFor(i)[1].issue_type = "billing"
       /\ CallsFor(i)[Len(CallsFor(i))].issue_type = SqlNull
       /\ \E r \in Conflicts(conversations, i) :
             conversations[r].issue_type = SqlNull /\ conversations[r].sentiment = SqlNull

\* C13: update_customer_context on an email with no cached context (the key
\* is absent, or holds text that cannot be deserialized) returns false and
\* leaves no context key for the email; on an email with a context it
\* returns true and stores the shallow merge, the keys of the updates
\* winning.
C13_SimpleUpdateNeedsContext ==
    [][\A e \in Emails, n \in 1..Len(ContextChoices) :
         LET u == ContextChoices[n]
             key == _context_key(e)
             raw == rget(db, key)
         IN /\ ((raw = None \/ ~JsonParses(raw)) /\ UpdateCustomerContext(e, u, 0)) =>
                  /\ ret'.exc = "none" /\ ret'.val = PyBool(FALSE)
                  /\ db'[key] = Nil
                  /\ \A k \in Keys \ {key} : db'[k] = db[k]
            /\ (raw # None /\ JsonParses(raw) /\ UpdateCustomerContext(e, u, 0)) =>
                  /\ ret'.exc = "none" /\ ret'.val = PyBool(TRUE)
                  /\ db'[key] # Nil /\ JsonParses(db'[key].val)
                  /\ LET old == json_loads(raw)
                         new == json_loads(db'[key].val)
                     IN /\ DOMAIN new = DOMAIN old \cup DOMAIN u
                        /\ \A k \in DOMAIN new :
                              new[k] = IF k \in DOMAIN u THEN u[k] ELSE old[k]]_vars

C13_Witness ==
    /\ ret.op = "update_customer_context" /\ ret.exc = "none" /\ ret.fail = "none"
    /\ ret.val = PyBool(FALSE) /\ ~ret.changed
    /\ db[_context_key(ret.arg)] = Nil

\* C15: a health check of RedisClient, SimplifiedRedisClient or SQLiteClient
\* raises nothing, whatever failed: it returns a report whose status is
\* "healthy" or "unhealthy", and an unhealthy report has an error entry.
HealthOps == {"health_check", "simple.health_check", "sqlite.health_check"}
C15_HealthCheckNeverRaises ==
    ret.op \in HealthOps =>
       /\ ret.exc = "none"
       /\ "obj" \in DOMAIN ret.val
       /\ ret.val.obj.status \in {"healthy", "unhealthy"}
       /\ ret.val.obj.status = "unhealthy" => "error" \in DOMAIN ret.val.obj

C15_Witness ==
    /\ ret.op = "sqlite.health_check" /\ ret.fail = "connect" /\ conn = "None"
    /\ ret.val = PyObj(UnhealthyReport("OperationalError"))
    /\ redis = "handle" /\ db[HealthKey] # Nil

\* C16: an operation of a cache client connects when the client has no
\* handle, so the handle is set once an operation has run; the ping of that
\* connect is the only ping, and when it fails the operation (health_check
\* aside) raises the connection error, returns nothing and writes nothing.
RedisOps == StoreOps \cup {"get_sessions_by_customer", "cleanup_expired_data", "flushdb",
                           "health_check"}
SimpleOps == {"cache_customer_context", "get_customer_context", "update_customer_context",
              "invalidate_customer_context", "simple.health_check"}
C16_PingFailureIsRaised ==
    [][ret' # ret =>
         /\ ret'.op \in RedisOps => redis' = "handle"
         /\ ret'.op \in SimpleOps => simple' = "handle"
         /\ (ret'.op \in RedisOps /\ ret'.fail = "ping") => redis = "None"
         /\ (ret'.op \in SimpleOps /\ ret'.fail = "ping") => simple = "None"
         /\ (ret'.op \in (RedisOps \cup SimpleOps) \ HealthOps /\ ret'.fail = "ping") =>
               (ret'.exc = "ConnectionError" /\ ret'.val = None /\ db' = db)]_vars

C16_Witness ==
    /\ ret.op = "get_customer_context" /\ ret.fail = "ping" /\ ret.exc = "ConnectionError"
    /\ simple = "handle"
    /\ db[_context_key(ret.arg)] # Nil

\* C19: get_customer_context on a key whose text cannot be deserialized
\* deletes the key and returns None, so the key is absent afterwards; on an
\* absent key it returns None and deletes nothing.
C19_CorruptContextIsDeleted ==
    [][\A e \in Emails :
         LET key == _context_key(e) IN
         /\ (Corrupt(db, e) /\ GetCustomerContext(e, 0)) =>
               /\ ret'.exc = "none" /\ ret'.val = None
               /\ db'[key] = Nil
               /\ \A k \in Keys \ {key} : db'[k] = db[k]
         /\ (db[key] = Nil /\ GetCustomerContext(e, 0)) =>
               (ret'.exc = "none" /\ ret'.val = None /\ db' = db)]_vars

C19_Witness ==
    /\ ret.op = "get_customer_context" /\ ret.exc = "none" /\ ret.val = None
    /\ ret.changed
    /\ db[_context_key(ret.arg)] = Nil

\* C18: cleanup_expired_data changes no key of any namespace, whether it
\* completes or fails, and when it completes it returns the number of live
\* session, context and temp keys.
C18_CensusIsReadOnly ==
    [][\A f \in 0..(Pings + 3) :
         CleanupExpiredData(f) =>
            /\ db' = db
            /\ f = 0 =>
                  /\ ret'.exc = "none"
                  /\ ret'.val = PyObj(
                        [sessions_active |->
                            Cardinality({i \in SessionIds : db[_session_key(i)] # Nil}),
                         contexts_active |->
                            Cardinality({e \in Emails : db[_context_key(e)] # Nil}),
                         temp_data_active |->
                            Cardinality({k \in TempKeys : db[_temp_key(k)] # Nil})])]_vars

C18_Witness ==
    /\ ret.op = "cleanup_expired_data" /\ ret.exc = "none"
    /\ ret.val = PyObj([sessions_active |-> 1, contexts_active |-> 2, temp_data_active |-> 1])
    /\ db[_session_key("s2")] = Nil /\ now > SESSION_TTL
    /\ db[_counter_key("c1")] # Nil /\ db[HealthKey] # Nil

\* C20: when the calls of increment_message_count that were started on an
\* existing session have all completed, the stored message_count has grown
\* by the number of calls (incs counts the completed calls since the session
\* was created with count 0) and no two calls returned the same count.
C20_NoLostIncrement ==
    \A i \in SessionIds :
       LET ran == {t \in Tasks : tasks[t].session_id = i /\ tasks[t].session # None}
       IN (incs[i] >= 0 /\ \A t \in ran : tasks[t].pc = "done") =>
             /\ SessionOf(db, i) # None
             /\ SessionOf(db, i).message_count = incs[i]
             /\ \A t, u \in ran : t # u => tasks[t].val # tasks[u].val

\* C21: once delete_session(id) has returned and no create_session(id) was
\* called since, get_session(id) returns None, also when a call of
\* update_session or increment_message_count that had started before the
\* delete completes after it.
C21_DeletedStaysDeleted ==
    \A i \in SessionIds : deleted[i] => SessionOf(db, i) = None

\* C22: the session stored under the key of id X has session_id X, and no
\* step but a create_session(X, ..) changes the customer_email or the
\* created_at of the session stored under that key.
C22_IdentityPreserved ==
    [][\A i \in SessionIds :
         /\ SessionOf(db', i) # None => SessionOf(db', i).session_id = i
         /\ (/\ SessionOf(db, i) # None
             /\ SessionOf(db', i) # None
             /\ ~\E e \in Emails : CreateSession(i, e, 0)) =>
               /\ SessionOf(db', i).customer_email = SessionOf(db, i).customer_email
               /\ SessionOf(db', i).created_at = SessionOf(db, i).created_at]_vars

\* The calls of increment_counter whose INCRBY the engine has executed, and
\* the sum of their amounts.
Applied == {t \in Tasks : tasks[t].pc \in {"served", "returned"}}
RECURSIVE SumAmounts(_)
SumAmounts(S) ==
    IF S = {} THEN 0
    ELSE LET t == CHOOSE x \in S : TRUE IN tasks[t].amount + SumAmounts(S \ {t})

\* C23 (as stated): the counter, 0 at the start, is the sum of the amounts
\* of the calls executed, and any two calls with positive amounts return
\* different values.
C23_PositiveCallsDistinct ==
    /\ CounterOf(db, "c1") = SumAmounts(Applied)
    /\ \A t, u \in Applied :
          (t # u /\ tasks[t].amount > 0 /\ tasks[u].amount > 0) =>
             tasks[t].val # tasks[u].val

\* C23 (amended): the counter, 0 at the start, is the sum of the amounts of
\* the calls executed, so get_counter after the calls gives the initial
\* value plus the sum of all amounts; and when every call executed had a
\* positive amount, no two of them return the same value.
C23_IncrementsAtomic ==
    /\ CounterOf(db, "c1") = SumAmounts(Applied)
    /\ (ret.op = "get_counter" /\ \A t \in Tasks : tasks[t].pc = "returned") =>
          ret.val = PyInt(SumAmounts(Tasks))
    /\ (\A t \in Applied : tasks[t].amount > 0) =>
          \A t, u \in Applied : t # u => tasks[t].val # tasks[u].val

C23_Witness ==
    /\ \A t \in Tasks : tasks[t].pc = "returned" /\ tasks[t].amount > 0
    /\ tasks[1].val > tasks[2].val
    /\ ret.op = "get_counter" /\ ret.val = PyInt(SumAmounts(Tasks))
    /\ \E t \in Tasks : tasks[t].amount = 2

====
